---------------------------- MODULE Spec2Model ----------------------------
(***************************************************************************)
(* The real-time alert synchronisation core of the Smart-city frontend:    *)
(* the alerts slice of the Redux store (alertsSlice.ts), its three thunks  *)
(* (fetchAlerts, acknowledgeAlert, resolveAlert), the socket handlers of   *)
(* the useWebSocket hook that feed it, the effect that opens and closes    *)
(* the socket, and the part of the auth slice that effect depends on.      *)
(*                                                                         *)
(* The server is not part of the repository.  Its inputs (event payloads,  *)
(* snapshot lists, REST outcomes) are drawn from small sets of well-typed  *)
(* values; a snapshot never lists an id twice.                             *)
(***************************************************************************)
EXTENDS Naturals, Sequences, FiniteSets

(***************************************************************************)
(* Bounds of the model.                                                    *)
(***************************************************************************)
\* longest alerts list the model lets addAlert build
MaxAlerts == 2
\* REST calls (fetch, acknowledge, resolve) issued in one behaviour
MaxReqs == 2
\* 'connect' events handled in one behaviour
MaxConnects == 2
\* sockets opened by io(...) in one behaviour
MaxOpens == 2
\* emitEvent calls that reach the socket in one behaviour
MaxEmits == 1

(***************************************************************************)
(* Value sets.                                                             *)
(***************************************************************************)
Ids == {"A1", "A2"}
Statuses == {"active", "acknowledged", "resolved"}
\* The display-only content of an alert (alert_type, severity, message,
\* module, created_at, location, affected_systems, recommended_actions).
Bodies == {"m1"}
\* an optional timestamp that is undefined
NoTime == 0
\* the timestamp the server puts in its events and snapshots
SrvTime == 1
\* the timestamp new Date() gives on the client
CliTime == 2
Tokens == {"t1", "t2"}
NoToken == "null"
NoAlert == [id |-> "none"]
NoError == "null"
NoResult == [type |-> "none", id |-> "none"]

VARIABLES
    alerts,          \* AlertsState.alerts
    activeAlerts,    \* AlertsState.activeAlerts
    isLoading,       \* AlertsState.isLoading
    error,           \* AlertsState.error
    filters,         \* AlertsState.filters.status
    isAuthenticated, \* AuthState.isAuthenticated
    token,           \* AuthState.token
    authCheck,       \* the checkAuth() App dispatches when it mounts
    sock,            \* state of the socket the effect created
    live,            \* sockets created by io() and not yet disconnect()ed
    opened,          \* sockets created by io() so far
    effDeps,         \* [isAuthenticated, token] of the effect's last run
    sent,            \* messages emitted on the socket, in order
    connects,        \* number of 'connect' events handled
    pending,         \* REST calls in flight
    nextReq,         \* number of the next REST call
    lastSettled,     \* what the last settled thunk returned to its caller
    uncaught         \* whether a UI handler has thrown

vars == <<alerts, activeAlerts, isLoading, error, filters, isAuthenticated,
          token, authCheck, sock, live, opened, effDeps, sent, connects,
          pending, nextReq, lastSettled, uncaught>>

sliceVars == <<alerts, activeAlerts, isLoading, error, filters>>
authVars == <<isAuthenticated, token, authCheck>>
sockVars == <<sock, live, opened, effDeps, sent, connects>>

(***************************************************************************)
(* Alert records.                                                          *)
(***************************************************************************)
Alert(i, st, ackAt, resAt, b) ==
    [id |-> i, status |-> st, acknowledged_at |-> ackAt,
     resolved_at |-> resAt, body |-> b]

\* The records a server holds: timestamps agree with the status.
ServerAlerts ==
    {Alert(i, "active", NoTime, NoTime, b) : i \in Ids, b \in Bodies}
    \cup {Alert(i, "acknowledged", SrvTime, NoTime, b) : i \in Ids, b \in Bodies}
    \cup {Alert(i, "resolved", t, SrvTime, b) :
            i \in Ids, t \in {NoTime, SrvTime}, b \in Bodies}

\* The records new_alert carries: an alert the server has just created.
NewAlerts == {a \in ServerAlerts : a.status = "active"}

\* A snapshot: a list of server records with no id twice.
Snapshots ==
    {<<>>} \cup {<<a>> : a \in ServerAlerts}
    \cup {<<a, b>> : a \in {x \in ServerAlerts : x.id = "A1"},
                     b \in {x \in ServerAlerts : x.id = "A2"}}
    \cup {<<b, a>> : a \in {x \in ServerAlerts : x.id = "A1"},
                     b \in {x \in ServerAlerts : x.id = "A2"}}

(***************************************************************************)
(* Array helpers of the reducers.                                          *)
(***************************************************************************)
\* Array.prototype.findIndex(a => a.id === i), 1-based; 0 for -1
FindIndex(s, i) ==
    IF \E k \in 1..Len(s) : s[k].id = i
    THEN CHOOSE k \in 1..Len(s) :
            s[k].id = i /\ \A j \in 1..(k - 1) : s[j].id # i
    ELSE 0

\* Array.prototype.find(a => a.id === i)
Find(s, i) == IF FindIndex(s, i) = 0 THEN NoAlert ELSE s[FindIndex(s, i)]

\* Array.prototype.unshift
Unshift(s, a) == <<a>> \o s

\* Array.prototype.splice(k, 1)
Splice(s, k) == SubSeq(s, 1, k - 1) \o SubSeq(s, k + 1, Len(s))

\* a merge that keeps the stored id and lifecycle fields and nothing else
MergeDropsBody(a, p) ==
    [f \in DOMAIN a |-> IF f \in DOMAIN p THEN p[f]
                        ELSE IF f = "body" THEN "none" ELSE a[f]]

\* { ...a, ...p }: the payload's fields win
Merge(a, p) == [f \in DOMAIN a |-> IF f \in DOMAIN p THEN p[f] ELSE a[f]]

IsActive(a) == a.status = "active"
StoredIds(s) == {s[k].id : k \in 1..Len(s)}

(***************************************************************************)
(* The reducers of the alerts slice, as functions of the two lists.        *)
(***************************************************************************)
Store(als, act) == [alerts |-> als, activeAlerts |-> act]
CurStore == Store(alerts, activeAlerts)

\* reducers.addAlert
addAlert(S, a) ==
    Store(Unshift(S.alerts, a),
          IF a.status = "active" THEN Unshift(S.activeAlerts, a)
          ELSE S.activeAlerts)

\* an updateAlert that patches the record in the active view whatever the
\* payload's status, and never removes it
updateAlertKeepsActive(S, p) ==
    LET index == FindIndex(S.alerts, p.id)
        activeIndex == FindIndex(S.activeAlerts, p.id)
    IN  Store(IF index # 0
              THEN [S.alerts EXCEPT ![index] = Merge(S.alerts[index], p)]
              ELSE S.alerts,
              IF activeIndex # 0
              THEN [S.activeAlerts EXCEPT
                       ![activeIndex] = Merge(S.activeAlerts[activeIndex], p)]
              ELSE S.activeAlerts)

\* an updateAlert that inserts the payload when no record has its id
updateAlertUpsert(S, p) ==
    LET index == FindIndex(S.alerts, p.id)
    IN  IF index = 0
        THEN Store(Unshift(S.alerts,
                           Merge(Alert(p.id, p.status, NoTime, NoTime, "none"), p)),
                   S.activeAlerts)
        ELSE Store([S.alerts EXCEPT ![index] = Merge(S.alerts[index], p)],
                   S.activeAlerts)

\* reducers.updateAlert
updateAlert(S, p) ==
    LET index == FindIndex(S.alerts, p.id)
        activeIndex == FindIndex(S.activeAlerts, p.id)
    IN  Store(IF index # 0
              THEN [S.alerts EXCEPT ![index] = Merge(S.alerts[index], p)]
              ELSE S.alerts,
              IF activeIndex # 0
              THEN IF p.status = "active"
                   THEN [S.activeAlerts EXCEPT
                            ![activeIndex] = Merge(S.activeAlerts[activeIndex], p)]
                   ELSE Splice(S.activeAlerts, activeIndex)
              ELSE S.activeAlerts)

\* extraReducers: fetchAlerts.fulfilled
fetchAlertsFulfilled(S, payload) ==
    Store(payload, SelectSeq(payload, IsActive))

\* a rejected fetch that empties the lists
fetchAlertsRejectedClears(S) == Store(<<>>, <<>>)

\* extraReducers: fetchAlerts.pending and fetchAlerts.rejected write
\* isLoading and error only
fetchAlertsPending(S) == S
fetchAlertsRejected(S) == S

\* extraReducers: acknowledgeAlert.fulfilled; t is new Date()
acknowledgeAlertFulfilled(S, alertId, t) ==
    LET k == FindIndex(S.alerts, alertId)
        NotIt(a) == a.id # alertId
    IN  Store(IF k # 0
              THEN [S.alerts EXCEPT ![k].status = "acknowledged",
                                    ![k].acknowledged_at = t]
              ELSE S.alerts,
              SelectSeq(S.activeAlerts, NotIt))

\* extraReducers: resolveAlert.fulfilled; t is new Date()
resolveAlertFulfilled(S, alertId, t) ==
    LET k == FindIndex(S.alerts, alertId)
        NotIt(a) == a.id # alertId
    IN  Store(IF k # 0
              THEN [S.alerts EXCEPT ![k].status = "resolved",
                                    ![k].resolved_at = t]
              ELSE S.alerts,
              SelectSeq(S.activeAlerts, NotIt))

\* a rollback that puts the alert back to 'active' whatever happened since
acknowledgeAlertRejectedRollback(S, alertId) ==
    LET k == FindIndex(S.alerts, alertId)
    IN  Store(IF k # 0
              THEN [S.alerts EXCEPT ![k].status = "active",
                                    ![k].acknowledged_at = NoTime]
              ELSE S.alerts,
              S.activeAlerts)

\* extraReducers has no case for acknowledgeAlert.pending, .rejected,
\* resolveAlert.pending or .rejected: the slice ignores these actions.
acknowledgeAlertPending(S, alertId) == S
acknowledgeAlertRejected(S, alertId) == S
resolveAlertPending(S, alertId) == S
resolveAlertRejected(S, alertId) == S

(***************************************************************************)
(* The payloads the socket handlers build.                                 *)
(***************************************************************************)
\* socket.on('alert_acknowledged'): acknowledged_by is not modelled
AcknowledgedPayload(i, t) ==
    [id |-> i, status |-> "acknowledged", acknowledged_at |-> t]

\* socket.on('alert_resolved'): resolved_by is not modelled
ResolvedPayload(i, t) ==
    [id |-> i, status |-> "resolved", resolved_at |-> t]

\* socket.on('alerts_bulk_acknowledged'): one updateAlert per listed id,
\* in the order of the list, each stamped with new Date()
RECURSIVE BulkAcknowledged(_, _, _)
BulkAcknowledged(S, ids, t) ==
    IF ids = <<>> THEN S
    ELSE BulkAcknowledged(updateAlert(S, AcknowledgedPayload(Head(ids), t)),
                          Tail(ids), t)

\* socket.on('alerts_bulk_acknowledged'): the stores the handler's
\* dispatches leave one after the other; the store's subscribers are
\* notified after each dispatch
RECURSIVE BulkStores(_, _, _)
BulkStores(S, ids, t) ==
    IF ids = <<>> THEN <<>>
    ELSE LET S1 == updateAlert(S, AcknowledgedPayload(Head(ids), t))
         IN  <<S1>> \o BulkStores(S1, Tail(ids), t)

\* the alert_ids lists the model delivers
IdLists ==
    {<<i>> : i \in Ids} \cup {p \in Ids \X Ids : p[1] # p[2]}

Range(s) == {s[k] : k \in 1..Len(s)}

\* socket.on('connect'): the three commands, in order
JoinRoom(r) == [event |-> "join_room", room |-> r]
SubscriptionFilter ==
    [severity_levels |-> {"high", "critical"},
     modules |-> {"traffic", "environment", "waste", "energy", "emergency"}]
SubscribeAlerts == [event |-> "subscribe_alerts", filter |-> SubscriptionFilter]
\* a handler that subscribes on the first connection only
OnConnectEmitsFirstOnly ==
    IF connects = 0
    THEN <<JoinRoom("alerts"), JoinRoom("dashboard"), SubscribeAlerts>>
    ELSE <<JoinRoom("alerts"), JoinRoom("dashboard")>>

OnConnectEmits ==
    <<JoinRoom("alerts"), JoinRoom("dashboard"), SubscribeAlerts>>

(***************************************************************************)
(* Initial state: the slices' initialState, no socket, nothing in flight.  *)
(***************************************************************************)
NoDeps == [isAuthenticated |-> FALSE, token |-> NoToken]

Init ==
    /\ alerts = <<>>
    /\ activeAlerts = <<>>
    /\ isLoading = FALSE
    /\ error = NoError
    /\ filters = "active"
    /\ isAuthenticated = FALSE
    /\ token \in {NoToken, "t1"}
    /\ authCheck = (IF token = NoToken THEN "no token" ELSE "getProfile")
    /\ sock = "none"
    /\ live = 0
    /\ opened = 0
    /\ effDeps = NoDeps
    /\ sent = <<>>
    /\ connects = 0
    /\ pending = {}
    /\ nextReq = 1
    /\ lastSettled = NoResult
    /\ uncaught = FALSE

\* the action a settled thunk resolves to: its type and meta.arg
Result(type, i) == [type |-> type, id |-> i]

SetStore(S) ==
    /\ alerts' = S.alerts
    /\ activeAlerts' = S.activeAlerts

(***************************************************************************)
(* The auth slice, as far as the socket effect reads it.                   *)
(***************************************************************************)
\* DashboardLayout is rendered inside ProtectedRoute: the hook is mounted
\* while isAuthenticated, and its dependencies are [isAuthenticated, token].
CurDeps ==
    IF isAuthenticated
    THEN [isAuthenticated |-> TRUE, token |-> token]
    ELSE NoDeps

\* extraReducers: login.fulfilled.  The login page is shown once
\* ProtectedRoute has redirected, which unmounts DashboardLayout and runs
\* the effect's cleanup: no effect run is outstanding when the user logs in.
\* App renders a spinner in place of every route while auth.isLoading,
\* which checkAuth.pending sets: the login form cannot be submitted before
\* checkAuth has settled.
LoginFulfilled(tok) ==
    /\ ~isAuthenticated
    /\ effDeps = CurDeps
    /\ authCheck = "settled"
    /\ isAuthenticated' = TRUE
    /\ token' = tok
    /\ UNCHANGED <<authCheck, lastSettled, uncaught>>
    /\ UNCHANGED <<sliceVars, sockVars, pending, nextReq>>

\* a logout that forgets the token and keeps the session authenticated
LogoutFulfilledTokenOnly ==
    /\ isAuthenticated
    /\ effDeps = CurDeps
    /\ token' = NoToken
    /\ UNCHANGED <<isAuthenticated, authCheck, lastSettled, uncaught>>
    /\ UNCHANGED <<sliceVars, sockVars, pending, nextReq>>

\* extraReducers: login.rejected
LoginRejected ==
    /\ ~isAuthenticated
    /\ effDeps = CurDeps
    /\ authCheck = "settled"
    /\ isAuthenticated' = FALSE
    /\ token' = NoToken
    /\ UNCHANGED <<authCheck, lastSettled, uncaught>>
    /\ UNCHANGED <<sliceVars, sockVars, pending, nextReq>>

\* extraReducers: updateProfile.fulfilled writes state.user only
UpdateProfileFulfilled ==
    /\ isAuthenticated
    /\ UNCHANGED vars

\* extraReducers: logout.fulfilled, dispatched from the mounted
\* DashboardLayout, whose effect has run
LogoutFulfilled ==
    /\ isAuthenticated
    /\ effDeps = CurDeps
    /\ isAuthenticated' = FALSE
    /\ token' = NoToken
    /\ UNCHANGED <<authCheck, lastSettled, uncaught>>
    /\ UNCHANGED <<sliceVars, sockVars, pending, nextReq>>

\* checkAuth.fulfilled: getProfile answered for the token localStorage held
\* when App mounted.  The reducer sets isAuthenticated and leaves token.
CheckAuthFulfilled ==
    /\ authCheck = "getProfile"
    /\ authCheck' = "settled"
    /\ isAuthenticated' = TRUE
    /\ UNCHANGED <<token, lastSettled, uncaught>>
    /\ UNCHANGED <<sliceVars, sockVars, pending, nextReq>>

\* checkAuth.rejected: no token in localStorage, or getProfile failed
CheckAuthRejected ==
    /\ authCheck \in {"no token", "getProfile"}
    /\ authCheck' = "settled"
    /\ isAuthenticated' = FALSE
    /\ token' = NoToken
    /\ UNCHANGED <<lastSettled, uncaught>>
    /\ UNCHANGED <<sliceVars, sockVars, pending, nextReq>>

(***************************************************************************)
(* useWebSocket: the effect, and the socket's connection events.           *)
(***************************************************************************)
\* The hook's socket: the state of the socket of the effect's last run
\* ("none" before any run created one) and the number of live sockets.
Channel(s, n) == [sock |-> s, live |-> n]

\* a cleanup that drops the reference and leaves the socket as it is
CleanupRefOnly(ch) == ch

\* a cleanup that disconnects a connected socket only
CleanupConnectedOnly(ch) ==
    IF ch.sock = "connected" THEN Channel("closed", ch.live - 1) ELSE ch

\* The cleanup the effect returned, if its last run created a socket:
\* socket.disconnect(), in whatever state the socket is.  A socket that
\* disconnect() closed neither reconnects nor delivers events.
Cleanup(ch) ==
    IF ch.sock \in {"none", "closed"} THEN ch
    ELSE Channel("closed", ch.live - 1)

\* a body that opens the socket without looking at the auth state
EffectBodyUnguarded(ch) == Channel("connecting", ch.live + 1)

\* The effect's body: the early return, or io(...) with the token
EffectBody(ch) ==
    IF ~isAuthenticated \/ token = NoToken THEN ch
    ELSE Channel("connecting", ch.live + 1)

\* The effect after a render that changed its dependencies: the previous
\* run's cleanup, then the body.
UseWebSocketEffect ==
    /\ effDeps # CurDeps
    /\ effDeps' = CurDeps
    /\ LET old == Cleanup(Channel(sock, live))
           ch == EffectBody(old)
       IN  /\ ch.live > old.live => opened < MaxOpens
           /\ sock' = ch.sock
           /\ live' = ch.live
           /\ opened' = opened + (ch.live - old.live)
    /\ UNCHANGED <<lastSettled, uncaught>>
    /\ UNCHANGED <<sliceVars, authVars, sent, connects, pending, nextReq>>

\* socket.on('connect'), fired on the first connection and on every
\* reconnection
SocketConnect ==
    /\ sock = "connecting"
    /\ connects < MaxConnects
    /\ sock' = "connected"
    /\ sent' = sent \o OnConnectEmits
    /\ connects' = connects + 1
    /\ UNCHANGED <<lastSettled, uncaught>>
    /\ UNCHANGED <<sliceVars, authVars, live, opened, effDeps, pending,
                   nextReq>>

\* The reasons of a 'disconnect' the client did not ask for: the transport
\* broke, or the server disconnected the socket.
Reasons == {"transport close", "io server disconnect"}

\* socket.on('disconnect'): logs.  io(...) is called without reconnection
\* options, so the socket reconnects by itself after a broken transport;
\* after a disconnect by the server socket.io-client does not, and the
\* handler does not call socket.connect().
SocketDisconnect(reason) ==
    /\ sock = "connected"
    /\ sock' = IF reason = "io server disconnect" THEN "disconnected"
               ELSE "connecting"
    /\ UNCHANGED <<lastSettled, uncaught>>
    /\ UNCHANGED <<sliceVars, authVars, live, opened, effDeps, sent, connects,
                   pending, nextReq>>

\* socket.on('connect_error'): logs; the attempt failed and the socket
\* goes on trying
SocketConnectError ==
    /\ sock = "connecting"
    /\ UNCHANGED vars

\* The events a caller of the hook may pass to emitEvent.
Events == {[event |-> "custom"]}

\* an emitEvent that hands the event to the socket whatever its state
EmitEventUnguarded(e) ==
    /\ sock # "none"
    /\ Len(sent) < 3 * connects + MaxEmits
    /\ sent' = Append(sent, e)
    /\ UNCHANGED <<lastSettled, uncaught>>
    /\ UNCHANGED <<sliceVars, authVars, sock, live, opened, effDeps, connects,
                   pending, nextReq>>

\* emitEvent(event, data): socket.emit only if socketRef.current?.connected;
\* otherwise nothing is sent and nothing is kept for later
EmitEvent(e) ==
    /\ sock = "connected" => Len(sent) < 3 * connects + MaxEmits
    /\ sent' = IF sock = "connected" THEN Append(sent, e) ELSE sent
    /\ UNCHANGED <<lastSettled, uncaught>>
    /\ UNCHANGED <<sliceVars, authVars, sock, live, opened, effDeps, connects,
                   pending, nextReq>>

(***************************************************************************)
(* The alert events of the socket.                                         *)
(***************************************************************************)
\* socket.on('new_alert')
NewAlert(a) ==
    /\ sock = "connected"
    /\ Len(alerts) < MaxAlerts
    /\ SetStore(addAlert(CurStore, a))
    /\ UNCHANGED <<lastSettled, uncaught>>
    /\ UNCHANGED <<isLoading, error, filters, authVars, sockVars, pending,
                   nextReq>>

\* socket.on('alert_acknowledged')
AlertAcknowledged(i) ==
    /\ sock = "connected"
    /\ SetStore(updateAlert(CurStore, AcknowledgedPayload(i, SrvTime)))
    /\ UNCHANGED <<lastSettled, uncaught>>
    /\ UNCHANGED <<isLoading, error, filters, authVars, sockVars, pending,
                   nextReq>>

\* socket.on('alert_resolved')
AlertResolved(i) ==
    /\ sock = "connected"
    /\ SetStore(updateAlert(CurStore, ResolvedPayload(i, SrvTime)))
    /\ UNCHANGED <<lastSettled, uncaught>>
    /\ UNCHANGED <<isLoading, error, filters, authVars, sockVars, pending,
                   nextReq>>

\* socket.on('alerts_bulk_acknowledged')
AlertsBulkAcknowledged(ids) ==
    /\ sock = "connected"
    /\ SetStore(BulkAcknowledged(CurStore, ids, CliTime))
    /\ UNCHANGED <<lastSettled, uncaught>>
    /\ UNCHANGED <<isLoading, error, filters, authVars, sockVars, pending,
                   nextReq>>

(***************************************************************************)
(* The thunks.  A call in flight is a record of pending: its kind, the     *)
(* alert id it names, its number and, for an acknowledge, the record        *)
(* find(id) gave when it was dispatched (what a rollback would restore).   *)
(***************************************************************************)
Request(k, i, n, pre) ==
    [kind |-> k, id |-> i, n |-> n,
     pre |-> IF k = "acknowledge" THEN pre ELSE NoAlert]

\* fetchAlerts dispatched (AlertsPage, AlertsPanel, DashboardPage):
\* fetchAlerts.pending, then alertsAPI.getAlerts
FetchAlerts ==
    /\ isAuthenticated
    /\ nextReq <= MaxReqs
    /\ isLoading' = TRUE
    /\ error' = NoError
    /\ SetStore(fetchAlertsPending(CurStore))
    /\ pending' = pending \cup {Request("fetch", "none", nextReq, NoAlert)}
    /\ nextReq' = nextReq + 1
    /\ UNCHANGED <<lastSettled, uncaught>>
    /\ UNCHANGED <<filters, authVars, sockVars>>

\* fetchAlerts.fulfilled with the snapshot the server returned
FetchAlertsFulfilled(r, payload) ==
    /\ r \in pending /\ r.kind = "fetch"
    /\ pending' = pending \ {r}
    /\ isLoading' = FALSE
    /\ SetStore(fetchAlertsFulfilled(CurStore, payload))
    /\ lastSettled' = Result("fetchAlerts.fulfilled", "none")
    /\ UNCHANGED uncaught
    /\ UNCHANGED <<error, filters, authVars, sockVars, nextReq>>

\* fetchAlerts.rejected
FetchAlertsRejected(r) ==
    /\ r \in pending /\ r.kind = "fetch"
    /\ pending' = pending \ {r}
    /\ isLoading' = FALSE
    /\ error' = "Failed to fetch alerts"
    /\ SetStore(fetchAlertsRejected(CurStore))
    /\ lastSettled' = Result("fetchAlerts.rejected", "none")
    /\ UNCHANGED uncaught
    /\ UNCHANGED <<filters, authVars, sockVars, nextReq>>

\* acknowledgeAlert(alertId) dispatched: the thunk calls
\* alertsAPI.acknowledgeAlert(alertId) whatever the store holds
AcknowledgeAlert(i) ==
    /\ isAuthenticated
    /\ nextReq <= MaxReqs
    /\ SetStore(acknowledgeAlertPending(CurStore, i))
    /\ pending' = pending \cup {Request("acknowledge", i, nextReq, Find(alerts, i))}
    /\ nextReq' = nextReq + 1
    /\ UNCHANGED <<lastSettled, uncaught>>
    /\ UNCHANGED <<isLoading, error, filters, authVars, sockVars>>

\* acknowledgeAlert.fulfilled
AcknowledgeAlertFulfilled(r) ==
    /\ r \in pending /\ r.kind = "acknowledge"
    /\ pending' = pending \ {r}
    /\ SetStore(acknowledgeAlertFulfilled(CurStore, r.id, CliTime))
    /\ lastSettled' = Result("acknowledgeAlert.fulfilled", r.id)
    /\ UNCHANGED uncaught
    /\ UNCHANGED <<isLoading, error, filters, authVars, sockVars, nextReq>>

\* acknowledgeAlert.rejected
AcknowledgeAlertRejected(r) ==
    /\ r \in pending /\ r.kind = "acknowledge"
    /\ pending' = pending \ {r}
    /\ SetStore(acknowledgeAlertRejected(CurStore, r.id))
    /\ lastSettled' = Result("acknowledgeAlert.rejected", r.id)
    /\ UNCHANGED uncaught
    /\ UNCHANGED <<isLoading, error, filters, authVars, sockVars, nextReq>>

\* resolveAlert({alertId}) dispatched
ResolveAlert(i) ==
    /\ isAuthenticated
    /\ nextReq <= MaxReqs
    /\ SetStore(resolveAlertPending(CurStore, i))
    /\ pending' = pending \cup {Request("resolve", i, nextReq, Find(alerts, i))}
    /\ nextReq' = nextReq + 1
    /\ UNCHANGED <<lastSettled, uncaught>>
    /\ UNCHANGED <<isLoading, error, filters, authVars, sockVars>>

\* resolveAlert.fulfilled
ResolveAlertFulfilled(r) ==
    /\ r \in pending /\ r.kind = "resolve"
    /\ pending' = pending \ {r}
    /\ SetStore(resolveAlertFulfilled(CurStore, r.id, CliTime))
    /\ lastSettled' = Result("resolveAlert.fulfilled", r.id)
    /\ UNCHANGED uncaught
    /\ UNCHANGED <<isLoading, error, filters, authVars, sockVars, nextReq>>

\* resolveAlert.rejected
ResolveAlertRejected(r) ==
    /\ r \in pending /\ r.kind = "resolve"
    /\ pending' = pending \ {r}
    /\ SetStore(resolveAlertRejected(CurStore, r.id))
    /\ lastSettled' = Result("resolveAlert.rejected", r.id)
    /\ UNCHANGED uncaught
    /\ UNCHANGED <<isLoading, error, filters, authVars, sockVars, nextReq>>

\* AlertsPage.handleBulkAcknowledge with a selection: alertsSlice exports
\* addAlert, updateAlert, setFilters and clearError and no bulkAcknowledge,
\* so the imported name is undefined and bulkAcknowledge(selectedAlerts)
\* throws before dispatch is reached: no action, no REST call.
HandleBulkAcknowledge(selectedAlerts) ==
    /\ isAuthenticated
    /\ selectedAlerts # {}
    /\ uncaught' = TRUE
    /\ UNCHANGED lastSettled
    /\ UNCHANGED <<sliceVars, authVars, sockVars, pending, nextReq>>

(***************************************************************************)
(* The store's specification.  logout.fulfilled and the socket's           *)
(* 'disconnect' leave the alerts slice and the calls in flight as they     *)
(* are, and only decide whether events and dispatches can happen: with     *)
(* one login and one connection the slice goes through the states it goes  *)
(* through under any number of sessions and reconnections.                 *)
(***************************************************************************)
Next ==
    \/ CheckAuthRejected
    \/ LoginFulfilled("t1")
    \/ UseWebSocketEffect
    \/ SocketConnect
    \/ \E a \in NewAlerts : NewAlert(a)
    \/ \E i \in Ids : AlertAcknowledged(i)
    \/ \E i \in Ids : AlertResolved(i)
    \/ \E ids \in IdLists : AlertsBulkAcknowledged(ids)
    \/ FetchAlerts
    \/ \E r \in pending, payload \in Snapshots : FetchAlertsFulfilled(r, payload)
    \/ \E r \in pending : FetchAlertsRejected(r)
    \/ \E i \in Ids : AcknowledgeAlert(i)
    \/ \E r \in pending : AcknowledgeAlertFulfilled(r)
    \/ \E r \in pending : AcknowledgeAlertRejected(r)
    \/ \E i \in Ids : ResolveAlert(i)
    \/ \E r \in pending : ResolveAlertFulfilled(r)
    \/ \E r \in pending : ResolveAlertRejected(r)
    \/ \E sel \in SUBSET Ids : HandleBulkAcknowledge(sel)

\* The store is followed from a browser that holds no token: the session
\* starts with the login, and checkAuth() has nothing to check.
InitStore == Init /\ token = NoToken

Spec == InitStore /\ [][Next]_vars

(***************************************************************************)
(* The channel's specification: sessions, the effect and the socket's      *)
(* connection events, with new_alert as the one event the socket delivers  *)
(* and no REST call.                                                       *)
(***************************************************************************)
NextChannel ==
    \/ \E tok \in Tokens : LoginFulfilled(tok)
    \/ LoginRejected
    \/ UpdateProfileFulfilled
    \/ LogoutFulfilled
    \/ CheckAuthFulfilled
    \/ CheckAuthRejected
    \/ UseWebSocketEffect
    \/ SocketConnect
    \/ \E reason \in Reasons : SocketDisconnect(reason)
    \/ SocketConnectError
    \/ \E e \in Events : EmitEvent(e)
    \/ \E a \in NewAlerts : NewAlert(a)

SpecChannel == Init /\ [][NextChannel]_vars

\* React runs a pending effect, and a socket that keeps trying reaches a
\* server that accepts.
SpecChannelFair ==
    SpecChannel /\ WF_vars(UseWebSocketEffect) /\ WF_vars(SocketConnect)

(***************************************************************************)
(* What the statements below read off a store.                             *)
(***************************************************************************)
\* getById(i).status, "absent" when no record has the id
StatusOf(als, i) ==
    IF FindIndex(als, i) = 0 THEN "absent" ELSE als[FindIndex(als, i)].status

\* the stored records that are active, as a set
ActiveStored(als) == {a \in Range(als) : a.status = "active"}

\* some stored record with the id has one of the statuses
StoredWith(als, i, sts) ==
    \E k \in 1..Len(als) : als[k].id = i /\ als[k].status \in sts

SameStore == alerts' = alerts /\ activeAlerts' = activeAlerts

C2_ResolvedIsAbsorbing ==
    [][ /\ \A i \in Ids :
              (AlertAcknowledged(i) /\ StatusOf(alerts, i) = "resolved")
                  => StatusOf(alerts', i) = "resolved"
        /\ \A ids \in IdLists : \A i \in Range(ids) :
              (AlertsBulkAcknowledged(ids) /\ StatusOf(alerts, i) = "resolved")
                  => StatusOf(alerts', i) = "resolved" ]_vars

(***************************************************************************)
(* C3: handling the same new_alert event twice yields the same store       *)
(* (alerts and activeAlerts) as handling it once, from every store the     *)
(* program reaches.                                                        *)
(***************************************************************************)
C3_NewAlertIdempotent ==
    \A a \in NewAlerts :
        addAlert(addAlert(CurStore, a), a) = addAlert(CurStore, a)

(***************************************************************************)
(* C4, as stated: once the rejection of acknowledgeAlert(id) has been      *)
(* processed, the alert has exactly the status, acknowledged_at and        *)
(* resolved_at it had immediately before the dispatch.                     *)
(***************************************************************************)
Lifecycle(a) ==
    IF a = NoAlert THEN NoAlert
    ELSE [status |-> a.status, acknowledged_at |-> a.acknowledged_at,
          resolved_at |-> a.resolved_at]

C5_SubscribeOnEveryConnect ==
    [][ (sock # "connected" /\ sock' = "connected")
          => /\ Len(sent') > Len(sent)
             /\ SubSeq(sent', 1, Len(sent)) = sent
             /\ sent'[Len(sent')] = SubscribeAlerts ]_vars

\* the channel is connected for the second time
C5_ReconnectedWitness ==
    /\ sock = "connected"
    /\ connects = 2
    /\ Cardinality({k \in 1..Len(sent) : sent[k] = SubscribeAlerts}) = 2

C7_ResolvedEventResolves ==
    [][ \A i \in Ids :
          (AlertResolved(i) /\ i \in StoredIds(alerts))
              => /\ StatusOf(alerts', i) = "resolved"
                 /\ i \notin StoredIds(activeAlerts') ]_vars

(***************************************************************************)
(* C8: dispatching acknowledgeAlert(id) for an id that is not in the       *)
(* store issues no REST call and does not change the store.                *)
(***************************************************************************)
C8_UnknownIdRejectedLocally ==
    [][ \A i \in Ids :
          (AcknowledgeAlert(i) /\ i \notin StoredIds(alerts))
              => (pending' = pending /\ SameStore) ]_vars

(***************************************************************************)
(* C9: no two records of alerts have the same id.                          *)
(***************************************************************************)
C9_UniqueIds ==
    \A j, k \in 1..Len(alerts) : j # k => alerts[j].id # alerts[k].id

(***************************************************************************)
(* C10: an id stored with status 'acknowledged' or 'resolved' is not       *)
(* stored with status 'active' afterwards (here: in the next state).       *)
(***************************************************************************)
C10_NeverBackToActive ==
    [][ \A i \in Ids :
          StoredWith(alerts, i, {"acknowledged", "resolved"})
              => ~StoredWith(alerts', i, {"active"}) ]_vars

(***************************************************************************)
(* C11: for every stored alert resolved_at is set if and only if its      *)
(* status is 'resolved', acknowledged_at is set when its status is         *)
(* 'acknowledged' and not set while it is still 'active', and neither      *)
(* timestamp of a stored alert, once set, is given another value.          *)
(***************************************************************************)
TimestampsAgree(a) ==
    /\ (a.resolved_at # NoTime) <=> (a.status = "resolved")
    /\ (a.status = "acknowledged") => (a.acknowledged_at # NoTime)
    /\ (a.status = "active") => (a.acknowledged_at = NoTime)

TimestampsKept(a, b) ==
    /\ (a.acknowledged_at # NoTime) => (b.acknowledged_at = a.acknowledged_at)
    /\ (a.resolved_at # NoTime) => (b.resolved_at = a.resolved_at)

C11_TimestampsAgreeWithStatus ==
    /\ [](\A k \in 1..Len(alerts) : TimestampsAgree(alerts[k]))
    /\ [][ \A i \in StoredIds(alerts) \cap StoredIds(alerts') :
              TimestampsKept(Find(alerts, i), Find(alerts', i)) ]_vars

(***************************************************************************)
(* C12: during a session no alert is removed from the store: an id that    *)
(* is in alerts is still in alerts in the next state, whatever step is     *)
(* taken.                                                                  *)
(***************************************************************************)
C12_NeverRemoved ==
    [][ (isAuthenticated /\ isAuthenticated')
          => StoredIds(alerts) \subseteq StoredIds(alerts') ]_vars

(***************************************************************************)
(* C13: alert_acknowledged or alert_resolved for an id that is not in      *)
(* the store is a no-op: from every store the program reaches, the         *)
(* handler's updateAlert gives back the same alerts and activeAlerts.      *)
(***************************************************************************)
C13_UnknownIdEventIsNoOp ==
    \A i \in Ids \ StoredIds(alerts) : \A t \in {SrvTime, CliTime} :
        /\ updateAlert(CurStore, AcknowledgedPayload(i, t)) = CurStore
        /\ updateAlert(CurStore, ResolvedPayload(i, t)) = CurStore

\* the socket can deliver an event for A2 while the store holds only A1
C13_AbsentIdWitness ==
    /\ sock = "connected"
    /\ StoredIds(alerts) = {"A1"}
    /\ activeAlerts # <<>>

(***************************************************************************)
(* C14: when acknowledgeAlert(id) or resolveAlert(id) is dispatched for    *)
(* an alert in the store, the store has the new status in the state the    *)
(* dispatch leaves, before the REST response arrives.                      *)
(***************************************************************************)
C14_OptimisticStatus ==
    [][ \A i \in StoredIds(alerts) :
          /\ AcknowledgeAlert(i) => StatusOf(alerts', i) = "acknowledged"
          /\ ResolveAlert(i) => StatusOf(alerts', i) = "resolved" ]_vars

(***************************************************************************)
(* C15: while an acknowledge or resolve call for an id is in flight a      *)
(* second call for the id is not sent, so at most one REST command per     *)
(* alert id is outstanding.                                                *)
(***************************************************************************)
Commands(i) ==
    {r \in pending : r.id = i /\ r.kind \in {"acknowledge", "resolve"}}

C15_OneCommandPerId ==
    /\ [](\A i \in Ids : Cardinality(Commands(i)) <= 1)
    /\ [][ \A i \in Ids :
              ((AcknowledgeAlert(i) \/ ResolveAlert(i)) /\ Commands(i) # {})
                  => pending' = pending ]_vars

(***************************************************************************)
(* C16: when an acknowledge or resolve call is rejected the slice's error  *)
(* becomes non-null, and no call is issued by the rejection.               *)
(***************************************************************************)
C16_RejectionSurfaced ==
    [][ \A r \in pending :
          (AcknowledgeAlertRejected(r) \/ ResolveAlertRejected(r))
              => /\ error' # NoError
                 /\ pending' = pending \ {r}
                 /\ nextReq' = nextReq ]_vars

(***************************************************************************)
(* C17: no channel connection is attempted while the token is absent or    *)
(* the session is not authenticated: every step that opens a socket is     *)
(* taken in a state with isAuthenticated and a token.                      *)
(***************************************************************************)
C17_NoConnectionWithoutAuth ==
    [][ (opened' > opened \/ live' > live)
          => (isAuthenticated /\ token # NoToken) ]_vars

\* a session has ended, the effect has run with no token and not
\* authenticated, and no socket is open
C17_GuardedWitness ==
    /\ ~isAuthenticated
    /\ token = NoToken
    /\ effDeps = CurDeps
    /\ opened > 0
    /\ live = 0

(***************************************************************************)
(* C18: at most one channel is live at any time, also after the token      *)
(* changed and the effect ran again.                                       *)
(***************************************************************************)
C18_AtMostOneChannel == live <= 1

\* a second socket has been opened and one is live
C18_ReopenedWitness ==
    /\ opened = 2
    /\ live = 1
    /\ sock \in {"connecting", "connected"}

(***************************************************************************)
(* C19: once the effect's cleanup has disconnected the socket and the      *)
(* effect has opened no other, whatever state the socket was in, the       *)
(* socket does not connect again and no event reaches the store.           *)
(***************************************************************************)
LastRunOpened == effDeps.isAuthenticated /\ effDeps.token # NoToken

C19_DisconnectIsFinal ==
    [][ (~LastRunOpened /\ ~LastRunOpened')
          => /\ sock' = sock
             /\ live' = 0
             /\ connects' = connects
             /\ sent' = sent
             /\ SameStore ]_vars

\* a socket that had connected has been disconnected by the cleanup
C19_DisconnectedWitness ==
    /\ sock = "closed"
    /\ live = 0
    /\ connects > 0
    /\ ~LastRunOpened

(***************************************************************************)
(* C20: after an unexpected closure the socket keeps trying, and under     *)
(* fairness it is connected again unless it is explicitly disconnected or  *)
(* the session ends first.                                                 *)
(***************************************************************************)
AfterClosure ==
    /\ sock \in {"connecting", "disconnected"}
    /\ connects \in 1..(MaxConnects - 1)

C20_EventuallyReconnected ==
    AfterClosure ~> (sock \in {"connected", "closed"} \/ ~isAuthenticated)

(***************************************************************************)
(* C21: alerts_bulk_acknowledged naming N ids is applied as one store      *)
(* transaction: the store it leaves is the one N acknowledge patches       *)
(* leave, and every store its dispatches go through is either the store    *)
(* before the event or the final one, none with only some of the alerts    *)
(* acknowledged.                                                           *)
(***************************************************************************)
C21_BulkEventIsOneTransaction ==
    sock = "connected" =>
        \A ids \in IdLists :
            LET stores == BulkStores(CurStore, ids, CliTime)
                final == BulkAcknowledged(CurStore, ids, CliTime)
            IN  /\ stores[Len(ids)] = final
                /\ \A k \in 1..Len(ids) : stores[k] \in {CurStore, final}

(***************************************************************************)
(* C22: when an alert that was 'active' at the dispatch of                 *)
(* acknowledgeAlert(id) has become 'resolved' while the call was in        *)
(* flight, the completion of the call leaves it 'resolved'.                *)
(***************************************************************************)
C22_LateAcknowledgeKeepsResolved ==
    [][ \A r \in pending :
          (/\ AcknowledgeAlertFulfilled(r)
           /\ r.pre # NoAlert /\ r.pre.status = "active"
           /\ StatusOf(alerts, r.id) = "resolved")
              => StatusOf(alerts', r.id) = "resolved" ]_vars

(***************************************************************************)
(* C26: a push event handled while a snapshot fetch is in flight is not    *)
(* lost: whatever snapshot the fetch then delivers, the store still holds  *)
(* the event's alert, with a status at least as advanced as the event      *)
(* set.  Stated for an event handled in a state with a fetch in flight     *)
(* and the snapshot applied next.                                          *)
(***************************************************************************)
Rank(st) ==
    CASE st = "absent" -> 0
      [] st = "active" -> 1
      [] st = "acknowledged" -> 2
      [] st = "resolved" -> 3

\* the status of id i once the snapshot has replaced store S
AfterSnapshot(S, payload, i) ==
    Rank(StatusOf(fetchAlertsFulfilled(S, payload).alerts, i))

C26_PushSurvivesSnapshot ==
    (sock = "connected" /\ \E r \in pending : r.kind = "fetch") =>
        \A payload \in Snapshots :
            /\ \A a \in NewAlerts :
                  AfterSnapshot(addAlert(CurStore, a), payload, a.id)
                      >= Rank("active")
            /\ \A i \in StoredIds(alerts) :
                  /\ AfterSnapshot(updateAlert(CurStore,
                                       AcknowledgedPayload(i, SrvTime)),
                                   payload, i) >= Rank("acknowledged")
                  /\ AfterSnapshot(updateAlert(CurStore,
                                       ResolvedPayload(i, SrvTime)),
                                   payload, i) >= Rank("resolved")

(***************************************************************************)
(* C27: when fetchAlerts calls overlap, once all have completed the store  *)
(* holds the result of the most recently issued call, whatever the order   *)
(* of the responses: with two calls in flight, the response of the later   *)
(* call followed by the response of the earlier one leaves the later       *)
(* call's result.                                                          *)
(***************************************************************************)
Fetches == {r \in pending : r.kind = "fetch"}

C27_LatestFetchWins ==
    \A r1, r2 \in Fetches :
        r1.n < r2.n =>
            \A p1, p2 \in Snapshots :
                fetchAlertsFulfilled(fetchAlertsFulfilled(CurStore, p2), p1)
                    = fetchAlertsFulfilled(CurStore, p2)

(***************************************************************************)
(* C23: handling alert_acknowledged, alert_resolved or                     *)
(* alerts_bulk_acknowledged, and completing a local acknowledge or         *)
(* resolve, keeps the records of alerts in place with their id and their   *)
(* display content, and leaves every record whose id is not named exactly  *)
(* as it was: from every store the program reaches, for every id or list   *)
(* of ids the operation may name.                                          *)
(***************************************************************************)
\* store T keeps the frame of store S for an operation naming the ids
FrameKept(S, T, named) ==
    /\ Len(T.alerts) = Len(S.alerts)
    /\ \A k \in 1..Len(S.alerts) :
          /\ T.alerts[k].id = S.alerts[k].id
          /\ T.alerts[k].body = S.alerts[k].body
          /\ S.alerts[k].id \notin named => T.alerts[k] = S.alerts[k]

C23_LifecycleFrame ==
    /\ \A i \in Ids :
          /\ FrameKept(CurStore,
                       updateAlert(CurStore, AcknowledgedPayload(i, SrvTime)),
                       {i})
          /\ FrameKept(CurStore,
                       updateAlert(CurStore, ResolvedPayload(i, SrvTime)), {i})
          /\ FrameKept(CurStore,
                       acknowledgeAlertFulfilled(CurStore, i, CliTime), {i})
          /\ FrameKept(CurStore,
                       resolveAlertFulfilled(CurStore, i, CliTime), {i})
    /\ \A ids \in IdLists :
          FrameKept(CurStore, BulkAcknowledged(CurStore, ids, CliTime),
                    Range(ids))

\* a local acknowledge of A1 has completed next to an untouched A2
C23_PatchedWitness ==
    /\ lastSettled = Result("acknowledgeAlert.fulfilled", "A1")
    /\ StoredIds(alerts) = {"A1", "A2"}
    /\ StatusOf(alerts, "A1") = "acknowledged"
    /\ StatusOf(alerts, "A2") = "active"

(***************************************************************************)
(* C25: every record of activeAlerts has status 'active' and has a record  *)
(* with its id in alerts.                                                  *)
(***************************************************************************)
C25_ActiveViewSound ==
    \A k \in 1..Len(activeAlerts) :
        /\ activeAlerts[k].status = "active"
        /\ activeAlerts[k].id \in StoredIds(alerts)

\* a lifecycle change has taken one alert out of a view that still shows
\* another
C25_MixedWitness ==
    /\ Len(alerts) = 2
    /\ Len(activeAlerts) = 1
    /\ \E k \in 1..2 : alerts[k].status = "acknowledged"

SessionEnded == ~isAuthenticated /\ effDeps = CurDeps

C24_LogoutClosesChannel ==
    /\ [](SessionEnded => (live = 0 /\ sock \in {"none", "closed"}))
    /\ [][ (SessionEnded /\ ~isAuthenticated') => sliceVars' = sliceVars ]_vars
    /\ (~isAuthenticated /\ live > 0) ~> (live = 0 \/ isAuthenticated)

\* a session that received alerts has been logged out and its socket closed
C24_LoggedOutWitness ==
    /\ SessionEnded
    /\ token = NoToken
    /\ sock = "closed"
    /\ alerts # <<>>

(***************************************************************************)
(* C29: in every reachable state of the auth slice isAuthenticated implies *)
(* that token is not null.                                                 *)
(***************************************************************************)
C29_AuthenticatedHasToken == isAuthenticated => token # NoToken

\* a second session, after a logout, is authenticated with its token
C29_SecondSessionWitness ==
    /\ isAuthenticated
    /\ token = "t2"
    /\ opened > 0
    /\ sock = "closed"

(***************************************************************************)
(* C30: nothing is handed to the socket while it is not connected: the     *)
(* connect handler sends join_room{alerts}, join_room{dashboard},          *)
(* subscribe_alerts in this order, emitEvent sends its event only while    *)
(* connected, and nothing else, and nothing at another time, is sent.      *)
(***************************************************************************)
C30_SendsOnlyWhileConnected ==
    [][ sent' # sent =>
          /\ sock' = "connected"
          /\ \/ /\ sock # "connected"
                /\ sent' = sent \o <<JoinRoom("alerts"), JoinRoom("dashboard"),
                                     SubscribeAlerts>>
             \/ /\ sock = "connected"
                /\ \E e \in Events : sent' = Append(sent, e) ]_vars

\* an event was sent while connected and the socket is no longer connected
C30_DisconnectedWitness ==
    /\ sock \in {"connecting", "disconnected", "closed"}
    /\ Len(sent) = 3 * connects + 1
    /\ \E k \in 1..Len(sent) : sent[k] \in Events
=============================================================================
